---------------------------- MODULE Spec2Model ----------------------------
(***************************************************************************)
(* Model of the personalization engine of src/src/personalize.ts           *)
(* (NewPersonalize) and of its caller src/unnamed/part_000                 *)
(* (SoftboxContextProvider).                                               *)
(*                                                                         *)
(* Numbers.  The engine computes with JavaScript doubles.  The model uses  *)
(* fixed point: a real x is the integer x * Unit, products are floored.    *)
(* Every default of the engine (0.0001 included) is an exact multiple of   *)
(* 1/Unit.  Counts (count, maxConsidered) are plain integers.              *)
(*                                                                         *)
(* Falsy values.  The code tests numbers with `||` and `if (v)`; the only  *)
(* falsy numbers of the model are 0 and an absent field, both written 0.   *)
(***************************************************************************)
EXTENDS Integers, Sequences, FiniteSets, TLC

VARIABLES
    cfg,              \* the instance's tunables (personalize.ts 150-162, 169)
    defaultInterests, \* this.defaultInterests
    debug,            \* this.debug
    posts,            \* this.posts: the raw catalog of the last choose
    scored,           \* this.scored: the scored items of the last choose
    lastEvent,        \* this.lastEvent: the last log event
    store,            \* localStorage['personalize-user-weights']
    call,             \* the last public call and its arguments
    prev,             \* the store as it was when the last call started
    ret,              \* the list the last choose returned
    threw,            \* whether the last call ended by a thrown exception
    calls,            \* the choose calls made so far (inputs and result)
    pending,          \* per session: the click between its load and its save
    clicked,          \* the interests of the clicks the sessions started, in order
    nChoose,          \* number of choose calls made
    nClick            \* number of click calls made

vars == << cfg, defaultInterests, debug, posts, scored, lastEvent, store,
           call, prev, ret, threw, calls, pending, clicked, nChoose, nClick >>

engineVars == << cfg, defaultInterests, debug, posts, scored, lastEvent >>
sessionVars == << pending, clicked >>

---------------------------------------------------------------------------
(* Fixed point arithmetic.                                                 *)

Unit == 100 * 100

\* floor(a * b / Unit), split so that no intermediate product leaves 32 bits.
Mul(a, b) == (a \div Unit) * b + ((a % Unit) * b) \div Unit

Min(a, b) == IF a <= b THEN a ELSE b
Max(a, b) == IF a >= b THEN a ELSE b

\* JavaScript's `a || b` on numbers.
Or(a, b) == IF a # 0 THEN a ELSE b

\* Number of halvings of the exponent's fraction that Pow follows.
PowBits == 6

RECURSIVE SqrtSearch(_, _, _)
SqrtSearch(n, lo, hi) ==
    IF lo >= hi THEN lo
    ELSE LET mid == (lo + hi + 1) \div 2
         IN  IF mid * mid <= n THEN SqrtSearch(n, mid, hi)
                               ELSE SqrtSearch(n, lo, mid - 1)

\* floor(sqrt(x)) in fixed point: sqrt(x / Unit) * Unit = sqrt(x * Unit).
Sqrt(x) == SqrtSearch(x * Unit, 0, 46340)

RECURSIVE PowInt(_, _)
PowInt(x, n) == IF n = 0 THEN Unit ELSE Mul(x, PowInt(x, n - 1))

\* x ^ (f / Unit) for 0 <= f < Unit, by the binary expansion of f / Unit:
\* r is x ^ (1 / 2^k) at depth k.
RECURSIVE PowFrac(_, _, _)
PowFrac(r, f, n) ==
    IF n = 0 \/ f = 0 THEN Unit
    ELSE LET s == Sqrt(r)
         IN  IF 2 * f >= Unit THEN Mul(s, PowFrac(s, 2 * f - Unit, n - 1))
                              ELSE PowFrac(s, 2 * f, n - 1)

\* Math.pow(x, e) for x >= 0 and e > 0.
Pow(x, e) ==
    IF x = 0 THEN 0 ELSE Mul(PowFrac(x, e % Unit, PowBits), PowInt(x, e \div Unit))

---------------------------------------------------------------------------
(* The defaults of the instance, personalize.ts 150-162.                   *)

DefaultCount == 4
DefaultLevel0Multiplier == 20000
DefaultInitialValue == 5000
DefaultHitValue == 20000
DefaultMissValue == 1
DefaultInitialWeight == 10
DefaultFilterConst == 9500
DefaultDeprioritization == 2000
DefaultNoInterestsValue == 100
DefaultScoreBoostExponent == 19000
DefaultInterestValueFloor == 1000
DefaultMaxConsidered == 50

\* The literal 1.0 of the clamp in updateWeights.
WeightCeiling == Unit

\* The instance as NewPersonalize builds it.
NewPersonalize ==
    [ count |-> DefaultCount,
      level0Multiplier |-> DefaultLevel0Multiplier,
      initialValue |-> DefaultInitialValue,
      hitValue |-> DefaultHitValue,
      missValue |-> DefaultMissValue,
      initialWeight |-> DefaultInitialWeight,
      filterConst |-> DefaultFilterConst,
      deprioritization |-> DefaultDeprioritization,
      noInterestsValue |-> DefaultNoInterestsValue,
      scoreBoostExponent |-> DefaultScoreBoostExponent,
      interestValueFloor |-> DefaultInterestValueFloor,
      maxConsidered |-> DefaultMaxConsidered,
      scoreBoost |-> 0 ]

---------------------------------------------------------------------------
(* STORAGE, personalize.ts 734-754.  The stored value is absent (getItem   *)
(* returns null), the JSON text of a weight map, or a text JSON.parse      *)
(* rejects.  A weight map is a function from interest identifiers to       *)
(* weights; JSON.stringify followed by JSON.parse gives back the same map  *)
(* for the finite numbers the engine stores.                               *)

EmptyMap == [k \in {} |-> 0]

Absent == [kind |-> "absent", map |-> EmptyMap]
Corrupt == [kind |-> "corrupt", map |-> EmptyMap]

\* JSON.stringify(weights), as stored by setItem.
Stringify(weights) == [kind |-> "json", map |-> weights]

\* setWeights: the value of the key after localStorage.setItem.
setWeights(weights) == Stringify(weights)

\* getWeights starting from the empty map whatever the default table holds.
getWeightsUnseeded(st, di, c) ==
    IF st.kind = "json" THEN [threw |-> FALSE, weights |-> st.map]
    ELSE IF st.kind = "corrupt" THEN [threw |-> TRUE, weights |-> EmptyMap]
    ELSE [threw |-> FALSE, weights |-> EmptyMap]

\* getWeights: the parsed map when a value is stored (JSON.parse throws on
\* a text that is not JSON), otherwise a map built from the default table.
getWeights(st, di, c) ==
    IF st.kind = "json" THEN [threw |-> FALSE, weights |-> st.map]
    ELSE IF st.kind = "corrupt" THEN [threw |-> TRUE, weights |-> EmptyMap]
    ELSE [threw |-> FALSE,
          weights |-> [k \in DOMAIN di |-> Or(di[k].weight, c.initialWeight)]]

---------------------------------------------------------------------------
(* CHOOSE: cleanup, personalize.ts 321-346.  A raw catalog is an array or  *)
(* not; a raw entry records what the tests of cleanup look at: whether it  *)
(* is null, its typeof, the typeof of its uid, and whether its interests   *)
(* are an array.                                                           *)

\* cleanupLoop without the test of interests.length.
RECURSIVE cleanupLoopKeepsEmpty(_, _)
cleanupLoopKeepsEmpty(list, result) ==
    IF list = << >> THEN result
    ELSE LET lkbk == Head(list)
         IN  IF lkbk.isNull \/ lkbk.typeof # "object"
               THEN cleanupLoopKeepsEmpty(Tail(list), result)
             ELSE IF lkbk.uidTypeof # "string"
               THEN cleanupLoopKeepsEmpty(Tail(list), result)
             ELSE IF ~ lkbk.interestsIsArray
               THEN cleanupLoopKeepsEmpty(Tail(list), result)
             ELSE cleanupLoopKeepsEmpty(Tail(list), Append(result, lkbk))

RECURSIVE cleanupLoop(_, _)
cleanupLoop(list, result) ==
    IF list = << >> THEN result
    ELSE LET lkbk == Head(list)
         IN  IF lkbk.isNull \/ lkbk.typeof # "object"
               THEN cleanupLoop(Tail(list), result)
             ELSE IF lkbk.uidTypeof # "string"
               THEN cleanupLoop(Tail(list), result)
             ELSE IF ~ lkbk.interestsIsArray \/ Len(lkbk.interests) = 0
               THEN cleanupLoop(Tail(list), result)
             ELSE cleanupLoop(Tail(list), Append(result, lkbk))

cleanup(lookbooks) ==
    IF ~ lookbooks.isArray THEN << >> ELSE cleanupLoop(lookbooks.list, << >>)

\* Array.prototype.slice(0, n).
Slice(s, n) == SubSeq(s, 1, Min(Len(s), Max(n, 0)))

---------------------------------------------------------------------------
(* SCORING, personalize.ts 358-394.                                        *)

\* priority: the user weight if truthy, else the default table's weight
\* when the table has the interest, else initialValue.
priority(interest, userWeights, di, c) ==
    IF interest \in DOMAIN userWeights /\ userWeights[interest] # 0
      THEN userWeights[interest]
    ELSE IF interest \in DOMAIN di
      THEN di[interest].weight
    ELSE c.initialValue

\* The loop of score over lkbk.interests: i is the index of Head(interests).
RECURSIVE scoreLoop(_, _, _, _, _, _)
scoreLoop(interests, i, finalScore, userWeights, di, c) ==
    IF interests = << >> THEN finalScore
    ELSE LET p == priority(Head(interests), userWeights, di, c)
             s == IF i = 0 THEN Mul(p, c.level0Multiplier) ELSE p
         IN  scoreLoop(Tail(interests), i + 1, finalScore + s, userWeights, di, c)

\* The score of one lookbook.
scoreOne(lkbk, userWeights, di, c) ==
    LET sum == IF ~ lkbk.interestsIsArray THEN c.noInterestsValue
               ELSE scoreLoop(lkbk.interests, 0, 0, userWeights, di, c)
        boosted == Mul(sum, Unit + Or(lkbk.boost, 0))
    IN  Pow(boosted, c.scoreBoostExponent)

\* score: every lookbook with its score attached.
score(lookbooks, userWeights, di, c) ==
    [i \in 1..Len(lookbooks) |->
        [lookbooks[i] EXCEPT !.score = scoreOne(lookbooks[i], userWeights, di, c)]]

---------------------------------------------------------------------------
(* SELECTION, personalize.ts 404-495.  rand() returns r / RandUnit.        *)

RandUnit == 10 * 10

\* The value JavaScript gives an arithmetic on undefined.
NaN == 0 - 1

RECURSIVE scoreSum(_)
scoreSum(lookbooks) ==
    IF lookbooks = << >> THEN 0
    ELSE Head(lookbooks).score + scoreSum(Tail(lookbooks))

\* The walk of getSelection comparing with `<` instead of `<=`.
RECURSIVE selectionWalkStrict(_, _, _, _, _)
selectionWalkStrict(lookbooks, index, runningSum, r, sum) ==
    IF index >= Len(lookbooks) THEN 0
    ELSE LET running == runningSum + lookbooks[index + 1].score
         IN  IF sum # 0 /\ r * sum < running * RandUnit THEN index
             ELSE selectionWalkStrict(lookbooks, index + 1, running, r, sum)

\* The walk of getSelection falling through to the last index instead of 0.
RECURSIVE selectionWalkReturningLast(_, _, _, _, _)
selectionWalkReturningLast(lookbooks, index, runningSum, r, sum) ==
    IF index >= Len(lookbooks) THEN Max(index - 1, 0)
    ELSE LET running == runningSum + lookbooks[index + 1].score
         IN  IF sum # 0 /\ r * sum <= running * RandUnit THEN index
             ELSE selectionWalkReturningLast(lookbooks, index + 1, running, r, sum)

\* The walk of getSelection: runningSum is kept as the sum of the scores,
\* so randomChoice <= runningSum / sum is r * sum <= runningSum * RandUnit.
\* With sum = 0 every quotient is NaN, no comparison holds and the walk
\* falls through to `return 0`.
RECURSIVE selectionWalk(_, _, _, _, _)
selectionWalk(lookbooks, index, runningSum, r, sum) ==
    IF index >= Len(lookbooks) THEN 0
    ELSE LET running == runningSum + lookbooks[index + 1].score
         IN  IF sum # 0 /\ r * sum <= running * RandUnit THEN index
             ELSE selectionWalk(lookbooks, index + 1, running, r, sum)

\* getSelection: the (0-based) index picked for the random value r.
getSelection(lookbooks, r) ==
    selectionWalk(lookbooks, 0, 0, r, scoreSum(lookbooks))

\* The copy without the splice: the picked lookbook stays in the pool.
RemoveNothing(s, index) == s

\* Array.prototype.splice(index, 1) on a copy.
Remove(s, index) ==
    [i \in 1..(Len(s) - 1) |-> IF i <= index THEN s[i] ELSE s[i + 1]]

\* uw[i] = uw[i] * (1.0 - deprioritization) for every interest of the pick.
RECURSIVE deprioritize(_, _, _)
deprioritize(uw, interests, c) ==
    IF interests = << >> THEN uw
    ELSE LET i == Head(interests)
             old == IF i \in DOMAIN uw THEN uw[i] ELSE NaN
             new == IF old = NaN THEN NaN ELSE Mul(old, Unit - c.deprioritization)
         IN  deprioritize([k \in DOMAIN uw \cup {i} |-> IF k = i THEN new ELSE uw[k]],
                          Tail(interests), c)

\* updateChoices: the pick, the list without it, the deprioritized clone.
updateChoices(lookbooks, userWeights, index, c) ==
    LET lkbk == lookbooks[index + 1]
    IN  [ lookbook |-> lkbk,
          lookbooks |-> Remove(lookbooks, index),
          userWeights |-> deprioritize(userWeights, lkbk.interests, c) ]

\* The promoted lookbooks, in order, and the others, in order.
Promoted(lookbooks) == SelectSeq(lookbooks, LAMBDA l : l.promote)
NotPromoted(lookbooks) == SelectSeq(lookbooks, LAMBDA l : ~ l.promote)

\* The loop of getList: pick number i + 1 draws rand[i + 1].
RECURSIVE getListLoop(_, _, _, _, _, _, _)
getListLoop(i, num, result, lookbooks, userWeights, rand, c) ==
    IF i >= num THEN result
    ELSE LET selected == getSelection(lookbooks, rand[i + 1])
             update == updateChoices(lookbooks, userWeights, selected, c)
         IN  getListLoop(i + 1, num, Append(result, update.lookbook),
                         update.lookbooks, update.userWeights, rand, c)

\* getList filling every slot of the pool, whatever count is.
getListIgnoringCount(lookbooks, userWeights, rand, c) ==
    LET result == Promoted(lookbooks)
        temp == NotPromoted(lookbooks)
    IN  getListLoop(0, Len(temp), result, temp, userWeights, rand, c)

\* getList pushing the promoted lookbooks after the picks.
getListPromotedLast(lookbooks, userWeights, rand, c) ==
    LET result == Promoted(lookbooks)
        temp == NotPromoted(lookbooks)
        num == Min(c.count - Len(result), Len(temp))
    IN  getListLoop(0, num, << >>, temp, userWeights, rand, c) \o result

\* getList: promoted lookbooks first, then count - promoted weighted picks.
getList(lookbooks, userWeights, rand, c) ==
    LET result == Promoted(lookbooks)
        temp == NotPromoted(lookbooks)
        num == Min(c.count - Len(result), Len(temp))
    IN  getListLoop(0, num, result, temp, userWeights, rand, c)

\* The loop of getList seen from outside: what the variables lookbooks and
\* userWeights hold at the head of each iteration and after the last one,
\* and the index getSelection names there (NaN after the last one).
RECURSIVE getListStates(_, _, _, _, _, _)
getListStates(i, num, lookbooks, userWeights, rand, c) ==
    IF i >= num
      THEN << [lookbooks |-> lookbooks, userWeights |-> userWeights,
               selected |-> NaN] >>
    ELSE LET selected == getSelection(lookbooks, rand[i + 1])
             update == updateChoices(lookbooks, userWeights, selected, c)
         IN  << [lookbooks |-> lookbooks, userWeights |-> userWeights,
                 selected |-> selected] >>
             \o getListStates(i + 1, num, update.lookbooks,
                              update.userWeights, rand, c)

---------------------------------------------------------------------------
(* UPDATE_WEIGHTS, personalize.ts 508-526.                                 *)

\* interests.indexOf(k) !== -1
Includes(interests, k) == \E i \in 1..Len(interests) : interests[i] = k

\* The first loop with hitValue and missValue taken the wrong way round.
filterWeightsSwapped(interests, userWeights, c) ==
    [k \in DOMAIN userWeights |->
        LET v == IF Includes(interests, k) THEN c.missValue ELSE c.hitValue
            filtered == Mul(c.filterConst, userWeights[k])
                        + Mul(Unit - c.filterConst, v)
        IN  Min(WeightCeiling, Max(c.interestValueFloor, filtered))]

\* The first loop: the low-pass filter and the clamp, on every stored key.
filterWeights(interests, userWeights, c) ==
    [k \in DOMAIN userWeights |->
        LET v == IF Includes(interests, k) THEN c.hitValue ELSE c.missValue
            filtered == Mul(c.filterConst, userWeights[k])
                        + Mul(Unit - c.filterConst, v)
        IN  Min(WeightCeiling, Max(c.interestValueFloor, filtered))]

\* The second loop: every clicked interest with no (truthy) weight gets
\* initialValue.
RECURSIVE insertMissing(_, _, _)
insertMissing(interests, userWeights, c) ==
    IF interests = << >> THEN userWeights
    ELSE LET i == Head(interests)
             absent == i \notin DOMAIN userWeights \/ userWeights[i] = 0
             uw == IF absent
                     THEN [k \in DOMAIN userWeights \cup {i} |->
                              IF k = i THEN c.initialValue ELSE userWeights[k]]
                     ELSE userWeights
         IN  insertMissing(Tail(interests), uw, c)

updateWeights(interests, userWeights, c) ==
    insertMissing(interests, filterWeights(interests, userWeights, c), c)

---------------------------------------------------------------------------
(* LOGGING and DEBUGGING, personalize.ts 533-727.  Of a log event the      *)
(* model keeps what decides control flow: its name and, for                *)
(* chosenLookbook, the lookbook's uid.  The default interest table's       *)
(* entries are taken to carry a name, as in the feed (interestsInfo reads  *)
(* name.en of each).                                                       *)

NoEvent == [event |-> "none", lookbook |-> ""]
SelectedListEvent == [event |-> "selectedList", lookbook |-> ""]
ChosenLookbookEvent(uid) == [event |-> "chosenLookbook", lookbook |-> uid]

\* The keys of lookbookInfo: the uids of this.scored.
lookbookInfo(sc) == { sc[i].uid : i \in 1..Len(sc) }

\* outputDebugging: whether it throws.  outputChosenLookbook reads
\* li[e.lookbook].title, a TypeError when the uid is no key of lookbookInfo;
\* outputSelectedList only reads uids of this.scored.
outputDebuggingThrows(e, dbg, sc) ==
    dbg /\ e.event = "chosenLookbook" /\ e.lookbook \notin lookbookInfo(sc)

---------------------------------------------------------------------------
(* PUBLIC, personalize.ts 209-228 and 268-272, and performChoose 305-313.  *)

\* The defaults set up at the head of choose: `settings.x || this.x`.
\* settings is the flattened props object, an absent field being 0.
resolve(c, settings) ==
    [c EXCEPT
       !.count = Or(settings.count, c.count),
       !.maxConsidered = Or(settings.maxConsidered, c.maxConsidered),
       !.level0Multiplier = Or(settings.level0_multiplier, c.level0Multiplier),
       !.initialValue = Or(settings.initial, c.initialValue),
       !.hitValue = Or(settings.hit, c.hitValue),
       !.missValue = Or(settings.miss, c.missValue),
       !.filterConst = Or(settings.filter_const, c.filterConst),
       !.deprioritization = Or(settings.deprioritization, c.deprioritization),
       !.noInterestsValue = Or(settings.no_interests, c.noInterestsValue),
       !.scoreBoost = Or(settings.scoreBoost, c.scoreBoost)]

\* performChoose saving the map it built when none was stored.
performChooseSavingDefaults(p, st, di, c, rand, sc, ev) ==
    LET userWeights == getWeights(st, di, c)
        data == Slice(cleanup(p), c.maxConsidered)
        newScored == score(data, userWeights.weights, di, c)
        list == getList(newScored, userWeights.weights, rand, c)
    IN  IF userWeights.threw
          THEN [threw |-> TRUE, list |-> << >>, scored |-> sc,
                lastEvent |-> ev, store |-> st]
          ELSE [threw |-> FALSE, list |-> list, scored |-> newScored,
                lastEvent |-> SelectedListEvent,
                store |-> IF st.kind = "absent"
                            THEN setWeights(userWeights.weights) ELSE st]

\* performChoose: what it returns, what it leaves in this.scored and
\* this.lastEvent, and the stored value when it ends.  st is the stored
\* value, sc and ev the instance's scored and lastEvent before the call.
performChoose(p, st, di, c, rand, sc, ev) ==
    LET userWeights == getWeights(st, di, c)
        data == Slice(cleanup(p), c.maxConsidered)
        newScored == score(data, userWeights.weights, di, c)
        list == getList(newScored, userWeights.weights, rand, c)
    IN  IF userWeights.threw
          THEN [threw |-> TRUE, list |-> << >>, scored |-> sc,
                lastEvent |-> ev, store |-> st]
          ELSE [threw |-> FALSE, list |-> list, scored |-> newScored,
                lastEvent |-> SelectedListEvent, store |-> st]

\* click: the stored value and this.lastEvent when it ends.
click(uid, interests, st, di, c, dbg, sc, ev) ==
    LET loaded == getWeights(st, di, c)
        updatedWeights == updateWeights(interests, loaded.weights, c)
        e == ChosenLookbookEvent(uid)
    IN  IF loaded.threw \/ outputDebuggingThrows(e, dbg, sc)
          THEN [threw |-> TRUE, lastEvent |-> ev, store |-> st]
          ELSE [threw |-> FALSE, lastEvent |-> e,
                store |-> setWeights(updatedWeights)]

---------------------------------------------------------------------------
(* The inputs the calls are made with.                                     *)

MaxChoose == 1         \* choose calls per behaviour
MaxClick == 1          \* click calls per behaviour
MaxCatalog == 3        \* entries of a raw catalog
MaxTrackedChoose == 3  \* choose calls per behaviour whose calls are recorded
MaxSessionClicks == 3  \* clicks the sessions start per behaviour

\* A well-formed catalog entry.
Lookbook(uid, interests, promote, boost) ==
    [ isNull |-> FALSE, typeof |-> "object", uidTypeof |-> "string",
      uid |-> uid, interestsIsArray |-> TRUE, interests |-> interests,
      promote |-> promote, boost |-> boost, score |-> 0 ]

\* Entries cleanup drops: null, a number, an object whose uid is no string,
\* one without interests, one whose interests are the empty array.
NullEntry == [Lookbook("", << >>, FALSE, 0) EXCEPT !.isNull = TRUE]
NumberEntry == [Lookbook("", << >>, FALSE, 0) EXCEPT !.typeof = "number"]
NoUidEntry == [Lookbook("", <<"A">>, FALSE, 0) EXCEPT !.uidTypeof = "undefined"]
NoInterestsEntry == [Lookbook("n1", << >>, FALSE, 0) EXCEPT !.interestsIsArray = FALSE]
EmptyInterestsEntry == Lookbook("n2", << >>, TRUE, 0)

U1 == Lookbook("u1", <<"A">>, FALSE, 0)
U2 == Lookbook("u2", <<"B", "A">>, FALSE, 5000)
U3 == Lookbook("u3", <<"C">>, FALSE, 0)
P1 == Lookbook("p1", <<"C">>, TRUE, 0)
P2 == Lookbook("p2", <<"A", "C">>, TRUE, 0)

Array(list) == [isArray |-> TRUE, list |-> list]
NotAnArray == [isArray |-> FALSE, list |-> << >>]

\* The catalogs choose is called with.
Catalogs ==
    { Array(<<U1, U2, U3>>),
      Array(<<U1, P1, P2>>),
      Array(<<NullEntry, U2, NoUidEntry>>),
      NotAnArray }

\* Every catalog of at most MaxCatalog entries, malformed ones included.
RawEntries == { NullEntry, NumberEntry, NoUidEntry, NoInterestsEntry,
                EmptyInterestsEntry, U1, U2, P1 }
RawCatalogs ==
    { NotAnArray } \cup
    { Array(l) : l \in UNION { [1..n -> RawEntries] : n \in 0..MaxCatalog } }

\* The flattened settings object; a field that is absent (or 0) is 0.
NoSettings ==
    [ count |-> 0, maxConsidered |-> 0, level0_multiplier |-> 0, initial |-> 0,
      hit |-> 0, miss |-> 0, filter_const |-> 0, deprioritization |-> 0,
      no_interests |-> 0, scoreBoost |-> 0 ]

SettingsSet ==
    { NoSettings,
      [NoSettings EXCEPT !.count = 1, !.initial = 500],
      [NoSettings EXCEPT !.count = 2, !.maxConsidered = 2,
                         !.level0_multiplier = 30000,
                         !.initial = 12000, !.hit = 10000, !.miss = 5000,
                         !.filter_const = 5000, !.deprioritization = 5000,
                         !.no_interests = 200, !.scoreBoost = 20000] }

\* Default interest tables: the empty one, and one with a zero weight.
DefaultTables ==
    { EmptyMap,
      [k \in {"A", "B"} |-> [weight |-> IF k = "A" THEN 650 ELSE 0]] }

\* The values the random source returns (r / RandUnit), one per pick.
RandPairs == { <<0, 99>>, <<60, 0>> }
Rands ==
    { [i \in 1..MaxCatalog |-> IF i % 2 = 1 THEN ab[1] ELSE ab[2]] :
        ab \in RandPairs }

ClickUids == {"u1", "zz"}
ClickInterests == { <<"A">>, <<"B", "A">>, <<"C">> }

Sessions == {1, 2}

---------------------------------------------------------------------------
(* The state after construction, and the calls.                            *)

NoCall == [op |-> "none", settings |-> NoSettings, rand |-> << >>,
           uid |-> "", interests |-> << >>]
Idle == [active |-> FALSE, weights |-> EmptyMap]

InitEngine ==
    /\ cfg = NewPersonalize
    /\ defaultInterests = EmptyMap
    /\ debug = FALSE
    /\ posts = Array(<< >>)
    /\ scored = << >>
    /\ lastEvent = NoEvent
    /\ call = NoCall
    /\ prev = Absent
    /\ ret = << >>
    /\ threw = FALSE
    /\ calls = {}
    /\ pending = [s \in Sessions |-> Idle]
    /\ clicked = << >>
    /\ nChoose = 0
    /\ nClick = 0

Init == InitEngine /\ store = Absent

\* instance.choose(p, settings, di), its random source returning rand.
ChooseCall(p, settings, di, rand) ==
    \E c \in {resolve(cfg, settings)} :
    \E r \in {performChoose(p, store, di, c, rand, scored, lastEvent)} :
        /\ posts' = p
        /\ cfg' = c
        /\ defaultInterests' = di
        /\ scored' = r.scored
        /\ lastEvent' = r.lastEvent
        /\ store' = r.store
        /\ ret' = r.list
        /\ threw' = r.threw
        /\ prev' = store
        /\ call' = [NoCall EXCEPT !.op = "choose", !.settings = settings,
                                  !.rand = rand]
        /\ UNCHANGED << debug, sessionVars, nClick >>

Choose ==
    /\ nChoose < MaxChoose
    /\ nChoose' = nChoose + 1
    /\ \E p \in Catalogs, settings \in SettingsSet, di \in DefaultTables,
          rand \in Rands : ChooseCall(p, settings, di, rand)
    /\ UNCHANGED calls

\* instance.click(uid, interests), as onClick calls it.
Click ==
    /\ nClick < MaxClick
    /\ nClick' = nClick + 1
    /\ \E uid \in ClickUids, interests \in ClickInterests :
         \E r \in {click(uid, interests, store, defaultInterests, cfg, debug,
                          scored, lastEvent)} :
             /\ store' = r.store
             /\ lastEvent' = r.lastEvent
             /\ threw' = r.threw
             /\ prev' = store
             /\ call' = [NoCall EXCEPT !.op = "click", !.uid = uid,
                                       !.interests = interests]
    /\ UNCHANGED << cfg, defaultInterests, debug, posts, scored, ret, calls,
                    sessionVars, nChoose >>

\* console.mycontent(): enableDebugging on the instance.
EnableDebugging ==
    /\ ~ debug
    /\ debug' = TRUE
    /\ threw' = outputDebuggingThrows(lastEvent, TRUE, scored)
    /\ prev' = store
    /\ call' = [NoCall EXCEPT !.op = "enableDebugging"]
    /\ UNCHANGED << cfg, defaultInterests, posts, scored, lastEvent, store, ret,
                    calls, sessionVars, nChoose, nClick >>

Next == Choose \/ Click \/ EnableDebugging

Spec == Init /\ [][Next]_vars

---------------------------------------------------------------------------
(* The store as the page finds it: localStorage outlives the page, and the *)
(* text under the key may be one JSON.parse rejects.                       *)

InitStorage == InitEngine /\ store \in {Absent, Corrupt}

SpecStorage == InitStorage /\ [][Next]_vars

---------------------------------------------------------------------------
(* One choose on any raw catalog.                                          *)

ChooseRaw ==
    /\ nChoose < 1
    /\ nChoose' = nChoose + 1
    /\ \E p \in RawCatalogs, settings \in SettingsSet, di \in DefaultTables,
          rand \in Rands : ChooseCall(p, settings, di, rand)
    /\ UNCHANGED calls

NextCatalog == ChooseRaw \/ EnableDebugging

SpecCatalog == Init /\ [][NextCatalog]_vars

---------------------------------------------------------------------------
(* Choose calls with their inputs and results recorded.                    *)

TrackedCatalogs == { Array(<<U1, U2, U3>>), Array(<<U1, P1, P2>>) }

ChooseTracked ==
    /\ nChoose < MaxTrackedChoose
    /\ nChoose' = nChoose + 1
    /\ \E p \in TrackedCatalogs, settings \in SettingsSet,
          di \in DefaultTables, rand \in Rands :
         /\ ChooseCall(p, settings, di, rand)
         /\ calls' = calls \cup
               { [ posts |-> p, settings |-> settings, di |-> di,
                   store |-> store, rand |-> rand, ret |-> ret' ] }

NextTracked == ChooseTracked

SpecTracked == Init /\ [][NextTracked]_vars

---------------------------------------------------------------------------
(* Several sessions (tabs) of the page share the key.  A session runs its  *)
(* own click to completion, but between the getItem of one session's click *)
(* (line 269) and its setItem (line 271) another session may run.          *)

\* Lines 269-270 of click in session s: load, update, log.
ClickLoad(s) ==
    /\ ~ pending[s].active
    /\ Len(clicked) < MaxSessionClicks
    /\ \E interests \in ClickInterests :
         /\ pending' = [pending EXCEPT ![s] =
               [ active |-> TRUE,
                 weights |-> updateWeights(interests,
                     getWeights(store, defaultInterests, cfg).weights, cfg) ]]
         /\ clicked' = Append(clicked, interests)
    /\ UNCHANGED << engineVars, store, call, prev, ret, threw, calls,
                    nChoose, nClick >>

\* Line 271 of click in session s: save.
ClickSave(s) ==
    /\ pending[s].active
    /\ store' = setWeights(pending[s].weights)
    /\ pending' = [pending EXCEPT ![s] = Idle]
    /\ UNCHANGED << engineVars, clicked, call, prev, ret, threw, calls,
                    nChoose, nClick >>

NextSessions == \E s \in Sessions : ClickLoad(s) \/ ClickSave(s)

SpecSessions == Init /\ [][NextSessions]_vars

---------------------------------------------------------------------------
(* getList called with an injected random source (its third parameter,     *)
(* "supplied by testing to force specific choices") on lookbooks that      *)
(* carry their scores.  count is what the last choose left in the          *)
(* instance.                                                               *)

Scored(uid, interests, promote, s) ==
    [Lookbook(uid, interests, promote, 0) EXCEPT !.score = s]

\* Pools: two items with scores 3:1 (small and large), items that all score
\* zero, zero scores around a positive one, and a promoted item with zeros.
ScoredPools ==
    { << Scored("u1", <<"A">>, FALSE, 3), Scored("u2", <<"B">>, FALSE, 1) >>,
      << Scored("u1", <<"A">>, FALSE, 3 * Unit), Scored("u2", <<"B">>, FALSE, Unit) >>,
      << Scored("u1", <<"A">>, FALSE, 0), Scored("u2", <<"B">>, FALSE, 0) >>,
      << Scored("u1", <<"A">>, FALSE, 0), Scored("u2", <<"B", "A">>, FALSE, 0),
         Scored("u3", <<"C">>, FALSE, 0) >>,
      << Scored("u1", <<"A">>, FALSE, 0), Scored("u2", <<"B">>, FALSE, Unit),
         Scored("u3", <<"C">>, FALSE, 0) >>,
      << Scored("p1", <<"C">>, TRUE, 0), Scored("u1", <<"A">>, FALSE, 0),
         Scored("u2", <<"B">>, FALSE, 0) >> }

\* Every value of the first draw, and two values for the later ones.
SampleRands ==
    { [i \in 1..MaxCatalog |-> IF i = 1 THEN r ELSE later] :
        r \in 0..(RandUnit - 1), later \in {0, RandUnit - 1} }

\* instance.getList(lookbooks, userWeights, rand).  getList writes nothing
\* to the instance, so its calls are independent of each other: one is
\* followed until the next choose.
GetList ==
    /\ call.op # "getList"
    /\ \E lookbooks \in ScoredPools, rand \in SampleRands :
         /\ ret' = getList(lookbooks,
                           getWeights(store, defaultInterests, cfg).weights,
                           rand, cfg)
         /\ scored' = lookbooks
         /\ call' = [NoCall EXCEPT !.op = "getList", !.rand = rand]
    /\ threw' = FALSE
    /\ prev' = store
    /\ UNCHANGED << cfg, defaultInterests, debug, posts, lastEvent, store,
                    calls, sessionVars, nChoose, nClick >>

\* instance.choose([], settings, {}): sets the instance's count.
ChooseEmpty ==
    /\ nChoose < MaxChoose
    /\ nChoose' = nChoose + 1
    /\ \E settings \in SettingsSet, rand \in { [i \in 1..MaxCatalog |-> 0] } :
         ChooseCall(Array(<< >>), settings, EmptyMap, rand)
    /\ UNCHANGED calls

NextSelection == GetList \/ ChooseEmpty

SpecSelection == Init /\ [][NextSelection]_vars

---------------------------------------------------------------------------
(* The same lookbook clicked again and again: after the calls of Next (one *)
(* choose, one click of any kind), clicks on a lookbook whose only         *)
(* interest is A go on for as long as they change anything.                *)

RepeatedInterests == <<"A">>

ClickRepeated ==
    /\ \E r \in {click("u1", RepeatedInterests, store, defaultInterests, cfg,
                        debug, scored, lastEvent)} :
         /\ store' = r.store
         /\ lastEvent' = r.lastEvent
         /\ threw' = r.threw
         /\ prev' = store
         /\ call' = [NoCall EXCEPT !.op = "click", !.uid = "u1",
                                   !.interests = RepeatedInterests]
    /\ UNCHANGED << cfg, defaultInterests, debug, posts, scored, ret, calls,
                    sessionVars, nChoose, nClick >>

NextRepeated == Choose \/ Click \/ ClickRepeated

SpecRepeated ==
    Init /\ [][NextRepeated]_vars /\ WF_vars(ClickRepeated)

---------------------------------------------------------------------------
(* Clicks on the map the page finds stored: any map over the interests     *)
(* with weights a click can have stored (the floor, the ceiling, a value   *)
(* between, and an initialValue below the floor).                          *)

StoredWeights == { 500, Unit \div 10, 6000, Unit }

StoredMaps ==
    UNION { [K -> StoredWeights] : K \in SUBSET {"A", "B", "C"} }

InitStored == InitEngine /\ store \in { Stringify(m) : m \in StoredMaps }

NextStored == ChooseEmpty \/ Click

SpecStored == InitStored /\ [][NextStored]_vars

---------------------------------------------------------------------------
(* The choose and click calls alone, in any order.                         *)

NextCalls == Choose \/ Click

SpecCalls == Init /\ [][NextCalls]_vars

---------------------------------------------------------------------------
(* The properties.                                                         *)

\* The uids of a list of lookbooks.
Uids(list) == [i \in 1..Len(list) |-> list[i].uid]

\* A list of lookbooks with the scores taken off again.
Unscored(list) == [i \in 1..Len(list) |-> [list[i] EXCEPT !.score = 0]]

\* C1: whatever choose and click calls were made, under whatever overrides,
\* every weight of the persisted map lies in [interestValueFloor, 1.0].
C1_WeightsInRange ==
    store.kind = "json" =>
        \A k \in DOMAIN store.map :
            /\ cfg.interestValueFloor <= store.map[k]
            /\ store.map[k] <= WeightCeiling

RECURSIVE PicksInOrder(_, _, _, _)
PicksInOrder(pool, rand, i, n) ==
    IF i >= n THEN << >>
    ELSE LET index == getSelection(pool, rand[i + 1])
         IN  <<pool[index + 1]>> \o PicksInOrder(Remove(pool, index), rand, i + 1, n)

\* C3: every promoted item of the scored list is in the result whatever its
\* score, the promoted items come first and in catalog order, and the
\* sampled items follow them in the order they were picked.
C3_PromotedFirst ==
    (call.op = "choose" /\ ~ threw) =>
        LET isPromoted(l) == l.promote
            notPromoted(l) == ~ l.promote
            promoted == SelectSeq(scored, isPromoted)
            n == Len(promoted)
        IN  /\ Len(ret) >= n
            /\ SubSeq(ret, 1, n) = promoted
            /\ SubSeq(ret, n + 1, Len(ret)) =
                 PicksInOrder(SelectSeq(scored, notPromoted), call.rand, 0,
                              Len(ret) - n)
            /\ \A i \in (n + 1)..Len(ret) : ~ ret[i].promote

\* A choose whose result holds two promoted items and then a sampled one
\* that precedes them in the catalog.
C3_Witness ==
    /\ call.op = "choose" /\ ~ threw
    /\ Len(ret) = 3
    /\ ret[1].promote /\ ret[2].promote /\ ~ ret[3].promote
    /\ scored[1] = ret[3]
    /\ ret[1].score < ret[2].score

\* C4: choose leaves the persisted map as it was, the first call (no map
\* persisted, one built from the defaults) included; only click changes it.
C4_ChooseKeepsStore == call.op # "click" => store = prev

\* A first choose: nothing persisted, the map built from a non-empty default
\* table, two sampled picks (so one deprioritization before a pick), and
\* still nothing persisted.
C4_Witness ==
    /\ call.op = "choose" /\ ~ threw
    /\ prev = Absent /\ store = Absent
    /\ DOMAIN defaultInterests # {}
    /\ Len(ret) >= 2 /\ ~ ret[1].promote

\* C5: every click completes by persisting update(clickedInterests, the map
\* loaded at its start), whatever the itemId and with or without debugging.
C5_ClickPersistsUpdate ==
    call.op = "click" =>
        /\ ~ threw
        /\ store = Stringify(updateWeights(call.interests,
                       getWeights(prev, defaultInterests, cfg).weights, cfg))

\* C6: in every choose call each option has the caller's value if truthy and
\* the built-in default otherwise, whatever earlier calls supplied, and the
\* score boost override is the exponent scoring uses.
C6_ResolvedPerCall ==
    call.op = "choose" =>
        LET o == call.settings
        IN  /\ cfg.count = Or(o.count, DefaultCount)
            /\ cfg.maxConsidered = Or(o.maxConsidered, DefaultMaxConsidered)
            /\ cfg.level0Multiplier = Or(o.level0_multiplier, DefaultLevel0Multiplier)
            /\ cfg.initialValue = Or(o.initial, DefaultInitialValue)
            /\ cfg.hitValue = Or(o.hit, DefaultHitValue)
            /\ cfg.missValue = Or(o.miss, DefaultMissValue)
            /\ cfg.filterConst = Or(o.filter_const, DefaultFilterConst)
            /\ cfg.deprioritization = Or(o.deprioritization, DefaultDeprioritization)
            /\ cfg.noInterestsValue = Or(o.no_interests, DefaultNoInterestsValue)
            /\ cfg.scoreBoostExponent = Or(o.scoreBoost, DefaultScoreBoostExponent)
            /\ cfg.initialWeight = DefaultInitialWeight
            /\ cfg.interestValueFloor = DefaultInterestValueFloor

\* C7: a call that finds a corrupted persisted map does not throw: the map
\* is taken as absent and built anew from the default table, so a click
\* persists the update of that map.
C7_CorruptStoreIsReinitialized ==
    (prev = Corrupt /\ call.op \in {"choose", "click"}) =>
        /\ ~ threw
        /\ call.op = "click" =>
             store = Stringify(updateWeights(call.interests,
                        getWeights(Absent, defaultInterests, cfg).weights, cfg))

\* C8: two choose calls with the same catalog, overrides, default table,
\* persisted weights and random values return the same list.
C8_Deterministic ==
    \A a \in calls, b \in calls :
        ( /\ a.posts = b.posts /\ a.settings = b.settings /\ a.di = b.di
          /\ a.store = b.store /\ a.rand = b.rand )
        => Uids(a.ret) = Uids(b.ret)

\* The values the key can hold after the clicks of `left` (indices of
\* clicked) ran one after another, in any order, from the stored value st.
RECURSIVE SerialOutcomes(_, _)
SerialOutcomes(left, st) ==
    IF left = {} THEN {st}
    ELSE UNION { SerialOutcomes(left \ {i},
                    Stringify(updateWeights(clicked[i],
                        getWeights(st, defaultInterests, cfg).weights, cfg))) :
                 i \in left }

\* C9: no click update is lost: once every started click has saved, the
\* persisted map is what the clicks give when run one after another in some
\* order.
C9_NoLostUpdate ==
    (\A s \in Sessions : ~ pending[s].active) =>
        store \in SerialOutcomes(1..Len(clicked), Absent)

\* An entry the sanitizer is to keep.
WellFormed(e) ==
    /\ ~ e.isNull /\ e.typeof = "object"
    /\ e.uidTypeof = "string"
    /\ e.interestsIsArray /\ Len(e.interests) > 0

\* C10: the sanitizer returns exactly the well-formed entries, in order and
\* unmodified, and nothing for a non-array; choose scores these (up to
\* maxConsidered) and, when there are none, returns the empty list; it does
\* not throw.
C10_Sanitizer ==
    LET expected == IF posts.isArray THEN SelectSeq(posts.list, WellFormed)
                    ELSE << >>
    IN  /\ cleanup(posts) = expected
        /\ call.op = "choose" =>
             /\ ~ threw
             /\ Unscored(scored) = Slice(expected, cfg.maxConsidered)
             /\ expected = << >> => ret = << >>

\* A choose on a catalog of three entries of which cleanup dropped the first
\* and the last.
C10_Witness ==
    /\ call.op = "choose" /\ ~ threw
    /\ posts.isArray /\ Len(posts.list) = 3
    /\ ~ WellFormed(posts.list[1]) /\ ~ WellFormed(posts.list[3])
    /\ Len(scored) = 1 /\ scored[1].uid = posts.list[2].uid
    /\ Len(ret) = 1

\* The iterations of the loop of getList in the last choose.
LastSelection ==
    LET userWeights == getWeights(prev, defaultInterests, cfg).weights
        temp == NotPromoted(scored)
        num == Min(cfg.count - Len(Promoted(scored)), Len(temp))
    IN  getListStates(0, num, temp, userWeights, call.rand, cfg)

\* The weight getSelection gives the lookbook uid in the pool: its share of
\* the walk is lkbk.score.
SelectionWeight(pool, uid) ==
    LET i == CHOOSE i \in 1..Len(pool) : pool[i].uid = uid IN pool[i].score

SharesInterest(a, b) ==
    \E i \in 1..Len(a.interests) : Includes(b.interests, a.interests[i])

\* C11: within one selection, after a pick the working copy of the weight
\* map holds each of the pick's interests multiplied by
\* (1 - deprioritization), and a remaining pool item that shares an interest
\* with the pick has a lower selection weight in the next pick than it had
\* in this one.
C11_DeprioritizationLowersLaterPicks ==
    (call.op = "choose" /\ ~ threw) =>
        LET t == LastSelection
        IN  \A j \in 1..(Len(t) - 1) :
              LET pick == t[j].lookbooks[t[j].selected + 1]
              IN  /\ \A k \in DOMAIN t[j].userWeights :
                        t[j + 1].userWeights[k] =
                          IF Includes(pick.interests, k)
                            THEN Mul(t[j].userWeights[k],
                                     Unit - cfg.deprioritization)
                            ELSE t[j].userWeights[k]
                  /\ \A m \in 1..Len(t[j + 1].lookbooks) :
                        LET l == t[j + 1].lookbooks[m]
                        IN  SharesInterest(l, pick) =>
                              SelectionWeight(t[j + 1].lookbooks, l.uid)
                                < SelectionWeight(t[j].lookbooks, l.uid)

\* The interests priority was asked about in the last choose.
ScoredInterests ==
    UNION { { scored[i].interests[j] : j \in 1..Len(scored[i].interests) } :
            i \in 1..Len(scored) }

\* C12: priority(interest) is the weight map's value if present and
\* non-zero, otherwise the default table's weight if present and non-zero,
\* otherwise exactly initialValue.
C12_PriorityFallback ==
    (call.op = "choose" /\ ~ threw) =>
        LET userWeights == getWeights(prev, defaultInterests, cfg).weights
        IN  \A i \in ScoredInterests :
              priority(i, userWeights, defaultInterests, cfg) =
                IF i \in DOMAIN userWeights /\ userWeights[i] # 0
                  THEN userWeights[i]
                ELSE IF i \in DOMAIN defaultInterests
                        /\ defaultInterests[i].weight # 0
                  THEN defaultInterests[i].weight
                ELSE cfg.initialValue

\* C13: on a pool of two non-promoted items with scores 3:1, one sampling
\* step picks the first item exactly when r is in [0, 0.75) and the second
\* exactly when r is in [0.75, 1).
C13_BucketsHalfOpen ==
    ( /\ call.op = "getList" /\ Len(scored) = 2
      /\ ~ scored[1].promote /\ ~ scored[2].promote
      /\ scored[2].score > 0 /\ scored[1].score = 3 * scored[2].score )
    => LET r == call.rand[1]
           index == getSelection(scored, r)
       IN  /\ index = (IF 4 * r < 3 * RandUnit THEN 0 ELSE 1)
           /\ ret[1] = scored[index + 1]

\* C13, amended: the first item is picked exactly when r is in [0, 0.75],
\* the boundary included, and the second exactly when r is in (0.75, 1).
C13_BucketsClosed ==
    ( /\ call.op = "getList" /\ Len(scored) = 2
      /\ ~ scored[1].promote /\ ~ scored[2].promote
      /\ scored[2].score > 0 /\ scored[1].score = 3 * scored[2].score )
    => LET r == call.rand[1]
           index == getSelection(scored, r)
       IN  /\ index = (IF 4 * r <= 3 * RandUnit THEN 0 ELSE 1)
           /\ ret[1] = scored[index + 1]

\* A sampling step on scores 3:1 with r = 0.75 that picked the first item.
C13_Witness ==
    /\ call.op = "getList" /\ Len(scored) = 2 /\ Len(ret) >= 1
    /\ scored[2].score > 0 /\ scored[1].score = 3 * scored[2].score
    /\ 4 * call.rand[1] = 3 * RandUnit
    /\ ret[1] = scored[1]

\* C14: when the scores of the pool sum to zero a sampling step picks index
\* 0 whatever the random value, nothing throws, and the following steps go
\* on taking the remaining zero-score items until the slots are filled.
C14_ZeroSumPicksFirst ==
    call.op = "getList" =>
        LET promoted == Promoted(scored)
            temp == NotPromoted(scored)
            num == Min(cfg.count - Len(promoted), Len(temp))
            t == getListStates(0, num, temp, EmptyMap, call.rand, cfg)
        IN  /\ ~ threw
            /\ \A j \in 1..(Len(t) - 1) :
                  scoreSum(t[j].lookbooks) = 0 =>
                    /\ t[j].selected = 0
                    /\ ret[Len(promoted) + j] = t[j].lookbooks[1]
            /\ scoreSum(temp) = 0 =>
                  ret = promoted \o SubSeq(temp, 1, Max(num, 0))

\* A selection on three zero-score items with two slots, the random values
\* being 0.5 and 0.99: the first two items, in catalog order.
C14_Witness ==
    /\ call.op = "getList" /\ ~ threw
    /\ Len(scored) = 3 /\ scoreSum(scored) = 0 /\ ~ scored[1].promote
    /\ cfg.count = 2
    /\ call.rand[1] = RandUnit \div 2 /\ call.rand[2] = RandUnit - 1
    /\ Uids(ret) = << scored[1].uid, scored[2].uid >>

\* The configuration C15 is about.
ConvergenceConfig ==
    /\ cfg.filterConst = DefaultFilterConst /\ cfg.hitValue = DefaultHitValue
    /\ cfg.missValue = DefaultMissValue
    /\ cfg.interestValueFloor = DefaultInterestValueFloor

\* C15: with filterConst 0.95 and hitValue 2, a click that contains A and
\* not B, both in the stored map, never lowers the stored weight of A and
\* never raises that of B; A stays at 1.0 once there and B at the floor.
C15_ClickedRisesOthersFall ==
    [][ ( /\ ConvergenceConfig
          /\ call'.op = "click" /\ ~ threw'
          /\ Includes(call'.interests, "A") /\ ~ Includes(call'.interests, "B")
          /\ store.kind = "json" /\ {"A", "B"} \subseteq DOMAIN store.map )
        => /\ store'.map["A"] >= store.map["A"]
           /\ store'.map["B"] <= store.map["B"]
           /\ store.map["A"] = WeightCeiling => store'.map["A"] = WeightCeiling
           /\ store.map["B"] = cfg.interestValueFloor
                 => store'.map["B"] = cfg.interestValueFloor ]_vars

\* The elements of a sequence.
Range(seq) == { seq[i] : i \in 1..Len(seq) }

Clamp(x, lo, hi) == IF x < lo THEN lo ELSE IF x > hi THEN hi ELSE x

SeededFrom(di, c) ==
    [k \in DOMAIN di |->
        IF di[k].weight # 0 THEN di[k].weight ELSE c.initialWeight]

C18_DistinctConsidered ==
    (call.op = "choose" /\ ~ threw) =>
        LET considered == Slice(cleanup(posts), cfg.maxConsidered)
        IN  \E f \in [1..Len(ret) -> 1..Len(considered)] :
              /\ \A i \in 1..Len(ret) : Unscored(ret)[i] = considered[f[i]]
              /\ \A i, j \in 1..Len(ret) : f[i] = f[j] => i = j

\* A choose on three well-formed entries with maxConsidered = 2: two
\* different items, the third entry not among them.
C18_Witness ==
    /\ call.op = "choose" /\ ~ threw
    /\ posts.isArray /\ Len(posts.list) = 3
    /\ \A i \in 1..3 : WellFormed(posts.list[i])
    /\ cfg.maxConsidered = 2
    /\ Len(ret) = 2 /\ ret[1].uid # ret[2].uid
    /\ posts.list[3].uid \notin { ret[1].uid, ret[2].uid }

=============================================================================
